---- MODULE Spec2Model ----
(***************************************************************************)
(* Image enrichment pipeline of the travel backend                         *)
(* (src/AIService/image_service.py, class ImageService).                   *)
(*                                                                         *)
(* One ImageService object: its two provider credentials, its cache dict   *)
(* and the enrichment call in progress.  An enrichment call builds one     *)
(* query per record, starts one _fetch_images_for_query task per query     *)
(* (asyncio.gather), and writes the image fields once gather has returned. *)
(* A task runs without interruption between two awaits, so every action    *)
(* below is the code between two suspension points of one coroutine.       *)
(*                                                                         *)
(* Strings are sequences of one-character strings; a URL is a record       *)
(* [src, q, n]: the service that produced it, the text it was produced     *)
(* for, and its position in that service's result list.                    *)
(***************************************************************************)
EXTENDS Integers, Sequences, FiniteSets, TLC

\* ------------------------------------------------------------- bounds
MaxFetches == 3 \* per-query fetches started in one behaviour
MaxTicks == 1   \* clock advances in one behaviour
MaxFound == 5   \* photos in one provider response
MaxCount == 5   \* largest images-per-record argument

\* --------------------------------------------------- program constants
cache_ttl == 86400
CacheCeiling == 500
SweepSize == 100
DefaultImagesPerDestination == 4
DefaultImagesPerActivity == 2

\* ------------------------------------------------------------ strings
NoneStr == <<"<None>">>            \* Python's None where a str is expected
Beach == <<"b", "e", "a", "c", "h">>
Resort == <<"r", "e", "s", "o", "r", "t">>
Travel == <<"t", "r", "a", "v", "e", "l">>

\* str(x) as an f-string formats it
Fmt(s) == IF s = NoneStr THEN <<"N", "o", "n", "e">> ELSE s

RECURSIVE JoinSeq(_)
JoinSeq(parts) ==
    IF parts = <<>> THEN <<>>
    ELSE IF Len(parts) = 1 THEN parts[1]
    ELSE parts[1] \o <<" ">> \o JoinSeq(Tail(parts))

Truthy(s) == s # <<>> /\ s # NoneStr

\* " ".join(filter(None, parts))
JoinNonEmpty(parts) == JoinSeq(SelectSeq(parts, Truthy))

\* s.replace(" ", "+")
RECURSIVE ReplaceSpaces(_)
ReplaceSpaces(s) ==
    IF s = <<>> THEN <<>>
    ELSE <<(IF Head(s) = " " THEN "+" ELSE Head(s))>> \o ReplaceSpaces(Tail(s))

\* s[:n]
Take(s, n) == IF n <= 0 THEN <<>> ELSE SubSeq(s, 1, IF n < Len(s) THEN n ELSE Len(s))

Min(a, b) == IF a < b THEN a ELSE b

\* --------------------------------------------------------------- URLs
Null == [src |-> "null", q |-> <<>>, n |-> 0]
Url(src, q, n) == [src |-> src, q |-> q, n |-> n]

\* ----------------------------------------------------- query builders
HintFor(settlement_type) ==
    IF settlement_type = "beach" \/ settlement_type = "island" THEN Beach
    ELSE IF settlement_type = "resort" THEN Resort
    ELSE Travel

\* dict.get(key, default)
Get(rec, key, default) == IF key \in DOMAIN rec THEN rec[key] ELSE default

\* Faulty variant: the parts are joined without dropping the empty ones.
BuildDestinationQueryUnfiltered(rec) ==
    JoinSeq(<<Get(rec, "name", <<>>), Get(rec, "location", <<>>),
              HintFor(Get(rec, "settlement_type", "city"))>>)

_build_destination_search_query(rec) ==
    JoinNonEmpty(<<Get(rec, "name", <<>>), Get(rec, "location", <<>>),
                   HintFor(Get(rec, "settlement_type", "city"))>>)

\* Faulty variant: the destination is appended whatever the category.
BuildActivityQueryWithDestination(act) ==
    Fmt(Get(act, "title", <<>>)) \o <<" ">> \o Fmt(Get(act, "destination", <<>>))

_build_activity_search_query(act) ==
    IF Get(act, "category", "") \in {"Sightseeing", "Culture", "Nature"}
    THEN Fmt(Get(act, "title", <<>>)) \o <<" ">> \o Fmt(Get(act, "destination", <<>>))
    ELSE Get(act, "title", <<>>)

BuildQuery(kd, rec) ==
    IF kd = "destinations" THEN _build_destination_search_query(rec)
    ELSE _build_activity_search_query(rec)

\* -------------------------------------------------------- placeholders
_generate_placeholder_images(query, cnt) ==
    [j \in 1..cnt |-> Url("placeholder", ReplaceSpaces(query), 0)]

\* A query that is not a str has no replace method: AttributeError.  The
\* activity query is the title itself, so a record whose title is None reaches
\* this line with query = None once both providers gave nothing.
PlaceholderRaises(query) == query = NoneStr

\* ------------------------------------------------------------- cache
\* The dict in insertion order: a sequence of [key, images, ts].
CacheKey(query, cnt) == <<Fmt(query), cnt>>

CacheIndex(c, key) ==
    IF \E i \in 1..Len(c) : c[i].key = key
    THEN CHOOSE i \in 1..Len(c) : c[i].key = key
    ELSE 0

RemoveAt(c, i) == [j \in 1..(Len(c) - 1) |-> IF j < i THEN c[j] ELSE c[j + 1]]

\* Faulty variant: the expiry test the wrong way round.
FreshInverted(age) == age > cache_ttl

Fresh(age) == age < cache_ttl

\* Faulty variant: an expired entry is reported absent but left in the dict.
GetKeepingExpired(c, key, t) ==
    LET i == CacheIndex(c, key) IN
    IF i # 0 /\ Fresh(t - c[i].ts)
    THEN [hit |-> TRUE, images |-> c[i].images, cache |-> c]
    ELSE [hit |-> FALSE, images |-> <<>>, cache |-> c]

\* [hit, images, cache]: the value returned (hit = FALSE for None) and the
\* dict after the call.
_get_from_cache(c, key, t) ==
    LET i == CacheIndex(c, key) IN
    IF i = 0 THEN [hit |-> FALSE, images |-> <<>>, cache |-> c]
    ELSE IF Fresh(t - c[i].ts)
         THEN [hit |-> TRUE, images |-> c[i].images, cache |-> c]
         ELSE [hit |-> FALSE, images |-> <<>>, cache |-> RemoveAt(c, i)]

\* Faulty variant: the entries are taken in insertion order.
RankByPosition(c, i) == i

\* Position of entry i in sorted(items, key=timestamp); sorted is stable.
Rank(c, i) ==
    Cardinality({j \in 1..Len(c) :
        c[j].ts < c[i].ts \/ (c[j].ts = c[i].ts /\ j <= i)})

\* Faulty variant: the 100 newest entries are removed.
SweepNewest(c) ==
    IF Len(c) > CacheCeiling
    THEN LET Stays(e) == Rank(c, CacheIndex(c, e.key)) <= Len(c) - SweepSize
         IN  SelectSeq(c, Stays)
    ELSE c

\* for old_key, _ in sorted_items[:100]: del self.cache[old_key]
Sweep(c) ==
    IF Len(c) > CacheCeiling
    THEN LET Stays(e) == Rank(c, CacheIndex(c, e.key)) > SweepSize
         IN  SelectSeq(c, Stays)
    ELSE c

\* Faulty variant: a key the dict already holds keeps its entry.
SaveKeepingFirst(c, key, images, t) ==
    IF CacheIndex(c, key) # 0 THEN c
    ELSE Append(c, [key |-> key, images |-> images, ts |-> t])

_save_to_cache(c, key, images, t) ==
    LET e == [key |-> key, images |-> images, ts |-> t]
        i == CacheIndex(c, key)
    IN  Sweep(IF i = 0 THEN Append(c, e) ELSE [c EXCEPT ![i] = e])

\* --------------------------------------------------- AIService.cache
\* The dict of the text generator (src/AIService/AIService.py): a sequence of
\* [key, data, ts] in insertion order.
ai_cache_ttl == 3600
AICacheCeiling == 100
TipsTtl == 7200

NoData == "<None>"

AI_get_from_cache(c, key, t) ==
    LET i == CacheIndex(c, key) IN
    IF i = 0 THEN [hit |-> FALSE, data |-> NoData, cache |-> c]
    ELSE IF t - c[i].ts < ai_cache_ttl
         THEN [hit |-> TRUE, data |-> c[i].data, cache |-> c]
         ELSE [hit |-> FALSE, data |-> NoData, cache |-> RemoveAt(c, i)]

\* cache_ttl = ttl or self.cache_ttl: None and 0 both give the default.
TtlUsed(ttl) == IF ttl # 0 THEN ttl ELSE ai_cache_ttl

\* The ttl argument only sets the age beyond which the cleanup drops entries;
\* the entry stored is (data, timestamp).
AI_save_to_cache(c, key, data, ttl, t) ==
    LET e == [key |-> key, data |-> data, ts |-> t]
        i == CacheIndex(c, key)
        c1 == IF i = 0 THEN Append(c, e) ELSE [c EXCEPT ![i] = e]
        NotExpired(x) == ~(t - x.ts > TtlUsed(ttl))
    IN  IF Len(c1) > AICacheCeiling THEN SelectSeq(c1, NotExpired) ELSE c1

\* -------------------------------------------------- provider adapters
\* What one HTTP GET can end in: a response with a status and a body, a
\* timeout, or a transport error.  n is the number of photos in the body.
FoundSizes == {0, 3, MaxFound}

Responses ==
    [outcome : {"response"}, status : {200, 401, 403, 429, 500},
     body : {"photos", "malformed"}, n : FoundSizes]
    \cup [outcome : {"timeout", "error"}, status : {0}, body : {"none"}, n : {0}]

\* The GET was answered 200 with a body of the expected shape.
GoodResponse(resp) ==
    resp.outcome = "response" /\ resp.status = 200 /\ resp.body = "photos"

Photos(src, query, n) == [j \in 1..n |-> Url(src, query, j)]

\* Faulty variant: the page of results is taken whole.
WholePage(images, cnt) == images

\* The slice [:count] over the results of the page.
Truncate(images, cnt) == Take(images, cnt)

\* The try block of an adapter for one outcome of its GET: the list it returns
\* (the empty list standing for the fall through to `return []`), or the
\* exception raised inside it.  A malformed body raises from response.json()
\* or from the comprehension, before any list exists.
TryBlock(src, query, cnt, resp) ==
    IF resp.outcome = "timeout" THEN [exc |-> "TimeoutException", images |-> <<>>]
    ELSE IF resp.outcome = "error" THEN [exc |-> "ConnectError", images |-> <<>>]
    ELSE IF resp.status # 200 THEN [exc |-> "none", images |-> <<>>]
    ELSE IF resp.body = "malformed" THEN [exc |-> "KeyError", images |-> <<>>]
    ELSE [exc |-> "none", images |-> Truncate(Photos(src, query, resp.n), cnt)]

\* Faulty variant: only the timeout is handled.
CaughtTimeoutOnly(exc) == exc = "TimeoutException"

\* except asyncio.TimeoutError / except Exception: every exception the try
\* block can raise is an Exception.
Caught(exc) == exc \in {"TimeoutException", "ConnectError", "KeyError"}

\* [raised, images]: whether the adapter raised to its caller, and its list.
Adapter(src, query, cnt, resp) ==
    LET r == TryBlock(src, query, cnt, resp) IN
    IF r.exc = "none" THEN [raised |-> FALSE, images |-> r.images]
    ELSE IF Caught(r.exc) THEN [raised |-> FALSE, images |-> <<>>]
    ELSE [raised |-> TRUE, images |-> <<>>]

_fetch_from_unsplash(query, cnt, resp) == Adapter("unsplash", query, cnt, resp)

_fetch_from_pexels(query, cnt, resp) == Adapter("pexels", query, cnt, resp)

\* ------------------------------------------------------------- inputs
A == <<"a">>
B == <<"b">>
AAmp == <<"a", "&">>
C == <<"c">>

DestRec(name, location, settlement_type) ==
    [name |-> name, location |-> location, settlement_type |-> settlement_type,
     image |-> Null, image2 |-> Null, image3 |-> Null, image4 |-> Null]

ActRec(title, destination, category) ==
    [title |-> title, destination |-> destination, category |-> category,
     images |-> <<>>, coverImage |-> Null]

Paris == DestRec(A, B, "city")
Bali == DestRec(AAmp, <<>>, "island")
Tower == ActRec(C, A, "Sightseeing")
Untitled == ActRec(NoneStr, A, "Dining")

\* The lists passed to the enrichment calls: empty, one record, two
\* different records, the same record twice.
DestLists == {<<>>, <<Paris>>, <<Paris, Bali>>, <<Paris, Paris>>}

ActLists == {<<>>, <<Tower>>, <<Untitled, Tower>>}

Counts == {DefaultImagesPerDestination, MaxCount}

\* -------------------------------------------------------------- state
VARIABLES
    unsplash_headers,  \* TRUE iff the Unsplash credential is configured
    pexels_headers,    \* TRUE iff the Pexels credential is configured
    cache,             \* self.cache
    now,               \* datetime.now().timestamp()
    ticks,             \* clock advances so far
    fetches,           \* per-query fetches started so far
    phase,             \* "idle", "gathering" (awaiting gather) or "returned"
    kind,              \* "destinations" or "activities"
    count,             \* images_per_destination / images_per_activity
    input,             \* the list as it was passed in
    records,           \* the list, mutated in place
    tasks,             \* one _fetch_images_for_query coroutine per query
    all_images,        \* the list _batch_fetch_images returned
    done_order,        \* task indices in the order the tasks settled
    saved,             \* every _save_to_cache so far: [key, images, ts, call]
    text_cache,        \* AIService.cache, the dict of the text generator
    probe,             \* a method called on its own: its arguments and its outcome
    variant,           \* the ImageService of new_services and its call in progress
    recommendations_store,  \* the module-level dict of recommendations_control
    db,                \* the AIRecommendation rows committed so far
    jobs,              \* the generate_and_store coroutines, in the order they were added
    response           \* what the last get_recommendations returned

vars == <<unsplash_headers, pexels_headers, cache, now, ticks, fetches, phase, kind,
          count, input, records, tasks, all_images, done_order, saved,
          text_cache, probe, variant, recommendations_store, db, jobs, response>>

NoProbe == [op |-> "none"]

\* None, for a time.
NoTime == -1

\* recommendations_store = {"data": None, "last_generated": None}
EmptyStore == [data |-> NoData, last_generated |-> NoTime]

NoResponse == [user |-> 0]

NoVariant == [pc |-> "none"]

NoEntry == [present |-> FALSE, images |-> <<>>, ts |-> 0]

\* A task: the coroutine's position (pc), its return value, and a record of
\* what it did: the steps it took, the cache entry it found, what each
\* adapter returned to it, whether it saved to the cache, and whether the
\* cache held its key when it settled.
NewTask(query) ==
    [query |-> query, pc |-> "created", result |-> <<>>, steps |-> <<>>,
     entry |-> NoEntry, startedAt |-> 0,
     uFound |-> 0, uRes |-> <<>>, pFound |-> 0, pRes |-> <<>>,
     wrote |-> FALSE, keyAtEnd |-> FALSE]

Settled(t) == t.pc \in {"returned", "raised"}

Init ==
    /\ recommendations_store = EmptyStore
    /\ db = <<>>
    /\ jobs = <<>>
    /\ response = NoResponse
    /\ unsplash_headers \in BOOLEAN
    /\ pexels_headers \in BOOLEAN
    /\ cache = <<>>
    /\ now = 0
    /\ ticks = 0
    /\ fetches = 0
    /\ phase = "idle"
    /\ kind = "none"
    /\ count = 0
    /\ input = <<>>
    /\ records = <<>>
    /\ tasks = <<>>
    /\ all_images = <<>>
    /\ done_order = <<>>
    /\ saved = {}
    /\ text_cache = <<>>
    /\ probe = NoProbe
    /\ variant = NoVariant

\* ------------------------------------------- _fetch_images_for_query
KeyOf(t) == CacheKey(t.query, count)

HasKey(c, t) == CacheIndex(c, KeyOf(t)) # 0

Return(t, images, c) ==
    [t EXCEPT !.pc = "returned", !.result = images, !.keyAtEnd = HasKey(c, t)]

Raise(t, c) == [t EXCEPT !.pc = "raised", !.keyAtEnd = HasKey(c, t)]

\* Faulty variant: the placeholder list is saved to the cache like a provider's.
UsePlaceholdersCached(t, c) ==
    LET t1 == [t EXCEPT !.steps = Append(@, "placeholder"), !.wrote = TRUE]
        images == _generate_placeholder_images(t.query, count)
        c2 == _save_to_cache(c, KeyOf(t), images, now)
    IN  [task |-> Return(t1, images, c2), cache |-> c2]

\* return self._generate_placeholder_images(search_query, count)
UsePlaceholders(t, c) ==
    LET t1 == [t EXCEPT !.steps = Append(@, "placeholder")] IN
    IF PlaceholderRaises(t.query)
    THEN [task |-> Raise(t1, c), cache |-> c]
    ELSE [task |-> Return(t1, _generate_placeholder_images(t.query, count), c),
          cache |-> c]

\* if self.pexels_headers: images = await self._fetch_from_pexels(...)
TryPexels(t, c) ==
    IF pexels_headers
    THEN [task |-> [t EXCEPT !.pc = "pexels", !.steps = Append(@, "pexels")],
          cache |-> c]
    ELSE UsePlaceholders(t, c)

\* if self.unsplash_headers: images = await self._fetch_from_unsplash(...)
TryUnsplash(t, c) ==
    IF unsplash_headers
    THEN [task |-> [t EXCEPT !.pc = "unsplash", !.steps = Append(@, "unsplash")],
          cache |-> c]
    ELSE TryPexels(t, c)

\* Faulty variant: a result shorter than requested is treated as no result.
AcceptedIfComplete(images, cnt) == Len(images) >= cnt

\* Faulty variant: whatever a provider returned is taken, the empty list too.
AcceptedAnything(images, cnt) == TRUE

\* if images: (a provider's result is accepted)
Accepted(images, cnt) == images # <<>>

\* self._save_to_cache(cache_key, images); return images
SaveAndReturn(t, images, c, tm) ==
    LET c2 == _save_to_cache(c, KeyOf(t), images, tm) IN
    [task |-> Return([t EXCEPT !.wrote = TRUE], images, c2), cache |-> c2]

\* The cache entry under the task's key as the dict holds it.
EntryAt(c, t) ==
    LET i == CacheIndex(c, KeyOf(t)) IN
    IF i = 0 THEN NoEntry
    ELSE [present |-> TRUE, images |-> c[i].images, ts |-> c[i].ts]

\* Faulty variant: the providers are tried without looking at the cached value.
StartFetchIgnoringCache(t, c, tm) ==
    LET got == _get_from_cache(c, KeyOf(t), tm)
        t1 == [t EXCEPT !.steps = <<"cache">>, !.entry = EntryAt(c, t),
                        !.startedAt = tm]
    IN  TryUnsplash(t1, got.cache)

\* From the first line of the coroutine to its first await or its return.
StartFetch(t, c, tm) ==
    LET got == _get_from_cache(c, KeyOf(t), tm)
        t1 == [t EXCEPT !.steps = <<"cache">>, !.entry = EntryAt(c, t),
                        !.startedAt = tm]
    IN  IF got.hit /\ got.images # <<>>
        THEN [task |-> Return(t1, got.images, got.cache), cache |-> got.cache]
        ELSE TryUnsplash(t1, got.cache)

\* From the return of _fetch_from_unsplash to the next await or the return.
AfterUnsplash(t, resp, c, tm) ==
    LET got == _fetch_from_unsplash(t.query, count, resp)
        images == got.images
        t1 == [t EXCEPT !.uRes = images,
                        !.uFound = IF images = <<>> THEN 0 ELSE resp.n]
    IN  IF got.raised THEN [task |-> Raise(t1, c), cache |-> c]
        ELSE IF Accepted(images, count) THEN SaveAndReturn(t1, images, c, tm)
        ELSE TryPexels(t1, c)

\* From the return of _fetch_from_pexels to the return.
AfterPexels(t, resp, c, tm) ==
    LET got == _fetch_from_pexels(t.query, count, resp)
        images == got.images
        t1 == [t EXCEPT !.pRes = images,
                        !.pFound = IF images = <<>> THEN 0 ELSE resp.n]
    IN  IF got.raised THEN [task |-> Raise(t1, c), cache |-> c]
        ELSE IF Accepted(images, count) THEN SaveAndReturn(t1, images, c, tm)
        ELSE UsePlaceholders(t1, c)

\* ------------------------------------------------ _batch_fetch_images
\* asyncio.gather schedules the first step of every task, in list order, before
\* it suspends the caller; the continuation of a task after its HTTP call is
\* queued behind them, so every task has looked at the cache before any
\* response is handled.
AllStarted == \A j \in 1..Len(tasks) : tasks[j].pc # "created"

\* Faulty variant: the fetches are awaited one after the other.
ScheduledInTurn(i) == \A j \in 1..(i - 1) : Settled(tasks[j])

\* Task i may take its next step: its first step when the tasks before it in
\* the list have taken theirs, a later step when every task has taken its
\* first.
Scheduled(i) ==
    IF tasks[i].pc = "created"
    THEN \A j \in 1..(i - 1) : tasks[j].pc # "created"
    ELSE AllStarted

\* Faulty variant: gather returns as soon as one task has settled.
GatherFirstSettled(ts) == \E i \in 1..Len(ts) : Settled(ts[i])

\* Faulty variant: gather waits until every task has returned a value.
GatherAllReturned(ts) == \A i \in 1..Len(ts) : ts[i].pc = "returned"

\* gather returns once every task has settled.
GatherDone(ts) == \A i \in 1..Len(ts) : Settled(ts[i])

\* Faulty variant: gather without return_exceptions re-raises a task's exception.
GatherPropagates(ts) == \E i \in 1..Len(ts) : ts[i].pc = "raised"

\* return_exceptions=True: an exception is a result, gather never raises.
GatherRaises(ts) == FALSE

\* Faulty variant: results collected in completion order (as_completed).
GatherInCompletionOrder(ts, order) ==
    [i \in 1..Len(ts) |-> IF i <= Len(order) THEN ts[order[i]] ELSE ts[i]]

\* gather's result list: position i holds the outcome of task i.
GatherResults(ts, order) == [i \in 1..Len(ts) |-> ts[i]]

\* processed_results: [] for an exception, the result otherwise.
ProcessResults(results) ==
    [i \in 1..Len(results) |->
        IF results[i].pc = "raised" THEN <<>> ELSE results[i].result]

\* ------------------------------------------------------- enrichment
\* Faulty variant: a gap is filled by starting over from the first URL.
SlotRecycled(images, j) ==
    IF images # <<>> THEN images[(j % Len(images)) + 1] ELSE Null

Slot(images, j) == IF Len(images) > j THEN images[j + 1] ELSE Null

\* Faulty variant: image2 and image3 take each other's URL.
AttachDestinationSwapped(rec, images) ==
    [rec EXCEPT !.image = Slot(images, 0), !.image2 = Slot(images, 2),
                !.image3 = Slot(images, 1), !.image4 = Slot(images, 3)]

AttachDestination(rec, images) ==
    [rec EXCEPT !.image = Slot(images, 0), !.image2 = Slot(images, 1),
                !.image3 = Slot(images, 2), !.image4 = Slot(images, 3)]

\* Faulty variant: the cover is the last image of the list.
AttachActivityLastCover(act, images) ==
    [act EXCEPT !.images = images,
                !.coverImage = IF images # <<>> THEN images[Len(images)] ELSE Null]

AttachActivity(act, images) ==
    [act EXCEPT !.images = images,
                !.coverImage = IF images # <<>> THEN images[1] ELSE Null]

\* Faulty variant: only the records whose fetch found images are returned.
AttachDroppingEmpty(kd, recs, all) ==
    LET Images(i) == IF i <= Len(all) THEN all[i] ELSE <<>>
        Found == SelectSeq([i \in 1..Len(recs) |-> i], LAMBDA i : Images(i) # <<>>)
    IN  [k \in 1..Len(Found) |->
            IF kd = "destinations"
            THEN AttachDestination(recs[Found[k]], Images(Found[k]))
            ELSE AttachActivity(recs[Found[k]], Images(Found[k]))]

\* for i, rec in enumerate(...): the image fields of each record are assigned.
Attach(kd, recs, all) ==
    [i \in 1..Len(recs) |->
        LET images == IF i <= Len(all) THEN all[i] ELSE <<>> IN
        IF kd = "destinations" THEN AttachDestination(recs[i], images)
        ELSE AttachActivity(recs[i], images)]

\* ------------------------------------------------------------ actions
\* Faulty variant: an empty list is not returned at once; a fetch is started
\* for an empty query.
EnhanceFetchingForNothing(kd, recs, k) ==
    /\ phase = "idle"
    /\ fetches + Len(recs) <= MaxFetches
    /\ fetches' = fetches + Len(recs)
    /\ kind' = kd
    /\ count' = k
    /\ input' = recs
    /\ records' = recs
    /\ all_images' = <<>>
    /\ done_order' = <<>>
    /\ tasks' = IF recs = <<>> THEN <<NewTask(<<>>)>>
                ELSE [i \in 1..Len(recs) |-> NewTask(BuildQuery(kd, recs[i]))]
    /\ phase' = "gathering"
    /\ UNCHANGED <<recommendations_store, db, jobs, response,
                   text_cache, probe, variant, unsplash_headers, pexels_headers, cache,
                   now, ticks, saved>>

\* enhance_destinations_with_images / enhance_trip_activities_with_images up
\* to the await of gather.
Enhance(kd, recs, k) ==
    /\ phase = "idle"
    /\ fetches + Len(recs) <= MaxFetches
    /\ fetches' = fetches + Len(recs)
    /\ kind' = kd
    /\ count' = k
    /\ input' = recs
    /\ records' = recs
    /\ all_images' = <<>>
    /\ done_order' = <<>>
    /\ IF recs = <<>>
       THEN tasks' = <<>> /\ phase' = "returned"
       ELSE /\ tasks' = [i \in 1..Len(recs) |-> NewTask(BuildQuery(kd, recs[i]))]
            /\ phase' = "gathering"
    /\ UNCHANGED <<recommendations_store, db, jobs, response,
                   text_cache, probe, variant, unsplash_headers, pexels_headers, cache, now, ticks, saved>>

EnhanceDestinations ==
    \E recs \in DestLists, k \in Counts : Enhance("destinations", recs, k)

EnhanceActivities ==
    \E recs \in ActLists : Enhance("activities", recs, DefaultImagesPerActivity)

Step(i, r) ==
    /\ tasks' = [tasks EXCEPT ![i] = r.task]
    /\ cache' = r.cache
    /\ done_order' = IF Settled(r.task) THEN Append(done_order, i) ELSE done_order
    /\ saved' = IF r.task.wrote /\ ~tasks[i].wrote
                THEN saved \cup {[key |-> KeyOf(r.task), images |-> r.task.result,
                                  ts |-> now, call |-> fetches]}
                ELSE saved
    /\ UNCHANGED <<recommendations_store, db, jobs, response,
                   text_cache, probe, variant, unsplash_headers, pexels_headers, now, ticks, fetches, phase, kind,
                   count, input, records, all_images>>

TaskStart ==
    \E i \in 1..Len(tasks) :
        /\ tasks[i].pc = "created"
        /\ Scheduled(i)
        /\ Step(i, StartFetch(tasks[i], cache, now))

UnsplashResponse ==
    \E i \in 1..Len(tasks), resp \in Responses :
        /\ tasks[i].pc = "unsplash"
        /\ Scheduled(i)
        /\ Step(i, AfterUnsplash(tasks[i], resp, cache, now))

PexelsResponse ==
    \E i \in 1..Len(tasks), resp \in Responses :
        /\ tasks[i].pc = "pexels"
        /\ Scheduled(i)
        /\ Step(i, AfterPexels(tasks[i], resp, cache, now))

\* From the return of gather to the return of the enrichment call.
GatherReturn ==
    /\ phase = "gathering"
    /\ GatherDone(tasks)
    /\ IF GatherRaises(tasks)
       THEN phase' = "raised" /\ UNCHANGED <<records, all_images>>
       ELSE LET all == ProcessResults(GatherResults(tasks, done_order)) IN
            /\ phase' = "returned"
            /\ all_images' = all
            /\ records' = Attach(kind, records, all)
    /\ UNCHANGED <<recommendations_store, db, jobs, response,
                   text_cache, probe, variant, unsplash_headers, pexels_headers, cache, now, ticks, fetches, kind,
                   count, input, tasks, done_order, saved>>

\* The caller takes the list; the service is ready for the next call.
Finish ==
    /\ phase \in {"returned", "raised"}
    /\ GatherDone(tasks)
    /\ phase' = "idle"
    /\ kind' = "none"
    /\ count' = 0
    /\ input' = <<>>
    /\ records' = <<>>
    /\ tasks' = <<>>
    /\ all_images' = <<>>
    /\ done_order' = <<>>
    /\ UNCHANGED <<recommendations_store, db, jobs, response,
                   text_cache, probe, variant, unsplash_headers, pexels_headers, cache, now, ticks, fetches, saved>>

\* The clock only matters as the age of a cache entry: it advances between
\* two calls, by one second less than the TTL or by the TTL, once the cache
\* holds an entry.  Within one call the tasks read and stamp the same instant.
TickSteps == {cache_ttl - 1, cache_ttl}

Tick ==
    \E d \in TickSteps :
        /\ phase = "idle"
        /\ cache # <<>>
        /\ ticks < MaxTicks
        /\ ticks' = ticks + 1
        /\ now' = now + d
        /\ UNCHANGED <<recommendations_store, db, jobs, response,
                   text_cache, probe, variant, unsplash_headers, pexels_headers, cache, fetches, phase, kind,
                       count, input, records, tasks, all_images, done_order, saved>>

Next ==
    \/ EnhanceDestinations
    \/ EnhanceActivities
    \/ TaskStart
    \/ UnsplashResponse
    \/ PexelsResponse
    \/ GatherReturn
    \/ Finish
    \/ Tick

Spec == Init /\ [][Next]_vars

\* The event loop runs every coroutine that is ready, and every GET ends: in
\* a response, a transport error, or the 10-second timeout of the client.
\* Whether another enrichment call is made, or the clock read, is up to the
\* environment.
FairSpec ==
    /\ Spec
    /\ WF_vars(TaskStart)
    /\ WF_vars(UnsplashResponse)
    /\ WF_vars(PexelsResponse)
    /\ WF_vars(GatherReturn)
    /\ WF_vars(Finish)

\* No enrichment call has been made: the state of Init but for the
\* credentials, the dicts and the clock.
NoCall ==
    /\ ticks = 0
    /\ fetches = 0
    /\ phase = "idle"
    /\ kind = "none"
    /\ count = 0
    /\ input = <<>>
    /\ records = <<>>
    /\ tasks = <<>>
    /\ all_images = <<>>
    /\ done_order = <<>>
    /\ saved = {}

\* ----------------------------------- the adapters called on their own
\* _fetch_from_unsplash and _fetch_from_pexels with every query, count and
\* outcome of the GET; the caller reaches them with the credential set.
AdapterQueries == {A, JoinSeq(<<A, B, Travel>>), <<>>}

AdapterCounts == {DefaultImagesPerActivity, DefaultImagesPerDestination, MaxCount}

AdapterCalls ==
    [op : {"_fetch_from_unsplash", "_fetch_from_pexels"}, query : AdapterQueries,
     cnt : AdapterCounts, resp : Responses, done : {FALSE}, raised : {FALSE},
     images : {<<>>}]

InitAdapters ==
    /\ recommendations_store = EmptyStore
    /\ db = <<>>
    /\ jobs = <<>>
    /\ response = NoResponse
    /\ unsplash_headers = TRUE
    /\ pexels_headers = TRUE
    /\ cache = <<>>
    /\ now = 0
    /\ NoCall
    /\ text_cache = <<>>
    /\ variant = NoVariant
    /\ probe \in AdapterCalls

AdapterReturns(got) ==
    /\ ~probe.done
    /\ probe' = [probe EXCEPT !.done = TRUE, !.raised = got.raised,
                              !.images = got.images]
    /\ UNCHANGED <<recommendations_store, db, jobs, response,
                   unsplash_headers, pexels_headers, cache, now, ticks, fetches, phase,
                   kind, count, input, records, tasks, all_images, done_order, saved,
                   text_cache, variant>>

FetchFromUnsplash ==
    /\ probe.op = "_fetch_from_unsplash"
    /\ AdapterReturns(_fetch_from_unsplash(probe.query, probe.cnt, probe.resp))

FetchFromPexels ==
    /\ probe.op = "_fetch_from_pexels"
    /\ AdapterReturns(_fetch_from_pexels(probe.query, probe.cnt, probe.resp))

NextAdapters ==
    \/ FetchFromUnsplash
    \/ FetchFromPexels

SpecAdapters == InitAdapters /\ [][NextAdapters]_vars

\* ------------------------------------- the query builders on their own
\* A key the dict does not have, for a str field and for a category.
Absent == <<"<absent>">>

AbsentKind == "<absent>"

\* The dict with the keys that are given: values are a str, or None.
QueryRec(k1, v1, k2, v2, k3, v3) ==
    LET keys == {k \in {k1, k2, k3} :
                    /\ k = k1 => v1 # Absent
                    /\ k = k2 => v2 # Absent
                    /\ k = k3 => v3 # AbsentKind}
    IN  [k \in keys |-> IF k = k1 THEN v1 ELSE IF k = k2 THEN v2 ELSE v3]

DestinationRecs ==
    {QueryRec("name", n, "location", l, "settlement_type", st) :
        n \in {Absent, NoneStr, <<>>, A, <<"a", " ", "b">>},
        l \in {Absent, NoneStr, <<>>, B},
        st \in {AbsentKind, NoData, "beach", "island", "resort", "city", "Beach"}}

ActivityRecs ==
    {QueryRec("title", t, "destination", d, "category", c) :
        t \in {Absent, NoneStr, <<>>, C},
        d \in {Absent, NoneStr, <<>>, A},
        c \in {AbsentKind, NoData, "Sightseeing", "Culture", "Nature", "Dining",
               "sightseeing"}}

InitQueries ==
    /\ recommendations_store = EmptyStore
    /\ db = <<>>
    /\ jobs = <<>>
    /\ response = NoResponse
    /\ unsplash_headers = TRUE
    /\ pexels_headers = TRUE
    /\ cache = <<[key |-> CacheKey(A, DefaultImagesPerDestination),
                  images |-> Photos("unsplash", A, DefaultImagesPerDestination),
                  ts |-> 0]>>
    /\ now = 0
    /\ NoCall
    /\ text_cache = <<>>
    /\ variant = NoVariant
    /\ \E op \in {"_build_destination_search_query", "_build_activity_search_query"} :
        \E rec \in (IF op = "_build_destination_search_query"
                    THEN DestinationRecs ELSE ActivityRecs) :
            probe = [op |-> op, rec |-> rec, done |-> FALSE, query |-> <<>>,
                     after |-> rec, before |-> cache]

\* The builder reads the dict and returns a str; it assigns nothing.
BuilderReturns(query) ==
    /\ ~probe.done
    /\ probe' = [probe EXCEPT !.done = TRUE, !.query = query, !.after = probe.rec,
                              !.before = cache]
    /\ UNCHANGED <<recommendations_store, db, jobs, response,
                   unsplash_headers, pexels_headers, cache, now, ticks, fetches, phase,
                   kind, count, input, records, tasks, all_images, done_order, saved,
                   text_cache, variant>>

BuildDestinationQuery ==
    /\ probe.op = "_build_destination_search_query"
    /\ BuilderReturns(_build_destination_search_query(probe.rec))

BuildActivityQuery ==
    /\ probe.op = "_build_activity_search_query"
    /\ BuilderReturns(_build_activity_search_query(probe.rec))

NextQueries ==
    \/ BuildDestinationQuery
    \/ BuildActivityQuery

SpecQueries == InitQueries /\ [][NextQueries]_vars

\* -------------------------------------- the two caches called on their own
\* _save_to_cache and _get_from_cache of ImageService or of AIService, on a
\* dict that is at its ceiling or one entry short of it.  The two objects
\* share nothing, so a behaviour works on one of them.
MaxOps == 2   \* cache operations in one behaviour

StartTime == 600

Digit(d) == <<"0", "1", "2", "3", "4", "5", "6", "7", "8", "9">>[d + 1]

RECURSIVE Digits(_)
Digits(n) == IF n < 10 THEN <<Digit(n)>> ELSE Digits(n \div 10) \o <<Digit(n % 10)>>

\* The dict after n fetches of n different queries.  Its first key was saved
\* a second time by a later fetch of the same batch, so the first position
\* holds the newest timestamp; the others were saved two to the second.
FillQuery(i) == <<"q">> \o Digits(i)

FillTime(i) == IF i = 1 THEN StartTime ELSE i \div 2

ImageFill(n) ==
    [i \in 1..n |->
        [key |-> CacheKey(FillQuery(i), DefaultImagesPerDestination),
         images |-> Photos("unsplash", FillQuery(i), 1), ts |-> FillTime(i)]]

TextKey(i) == <<"t", "i", "p", "s", "_">> \o Digits(i)

TextFill(n) == [i \in 1..n |-> [key |-> TextKey(i), data |-> "recs", ts |-> i]]

ImageKeys ==
    {CacheKey(A, DefaultImagesPerDestination),
     CacheKey(FillQuery(1), DefaultImagesPerDestination),
     CacheKey(FillQuery(2), DefaultImagesPerDestination)}

TextKeys == {TextKey(0), TextKey(1)}

\* ttl=None (written 0) from the recommendation methods, 7200 from get_travel_tips
Ttls == {0, TipsTtl}

ProbeImages == Photos("pexels", A, 2)

NoOp == [obj |-> "none", op |-> "none", key |-> <<>>, ttl |-> 0, value |-> <<>>, at |-> 0]

Summary(p) ==
    [obj |-> p.obj, op |-> p.op, key |-> p.key, ttl |-> p.ttl, value |-> p.value,
     at |-> p.at]

InitCache ==
    /\ recommendations_store = EmptyStore
    /\ db = <<>>
    /\ jobs = <<>>
    /\ response = NoResponse
    /\ unsplash_headers = TRUE
    /\ pexels_headers = TRUE
    /\ NoCall
    /\ variant = NoVariant
    /\ now = StartTime
    /\ \E obj \in {"image", "text"}, short \in {0, 1} :
           /\ cache = IF obj = "image" THEN ImageFill(CacheCeiling - short) ELSE <<>>
           /\ text_cache = IF obj = "text" THEN TextFill(AICacheCeiling - short) ELSE <<>>
           /\ probe = [obj |-> obj, op |-> "none", key |-> <<>>, ttl |-> 0,
                       value |-> <<>>, hit |-> FALSE, at |-> 0, before |-> <<>>,
                       n |-> 0, prev |-> NoOp]

\* The call just made: on which dict, with which arguments, what it returned
\* and the dict as it was before; prev is the call made before it.
CacheOp(obj, op, key, ttl, value, hit, before) ==
    /\ probe.obj = obj
    /\ probe.n < MaxOps
    /\ probe' = [obj |-> obj, op |-> op, key |-> key, ttl |-> ttl, value |-> value,
                 hit |-> hit, at |-> now, before |-> before, n |-> probe.n + 1,
                 prev |-> Summary(probe)]
    /\ UNCHANGED <<recommendations_store, db, jobs, response,
                   unsplash_headers, pexels_headers, now, ticks, fetches, phase, kind,
                   count, input, records, tasks, all_images, done_order, saved, variant>>

ImagePut ==
    \E key \in ImageKeys :
        /\ CacheOp("image", "_save_to_cache", key, 0, ProbeImages, FALSE, cache)
        /\ cache' = _save_to_cache(cache, key, ProbeImages, now)
        /\ UNCHANGED text_cache

ImageGet ==
    \E key \in ImageKeys :
        LET got == _get_from_cache(cache, key, now) IN
        /\ CacheOp("image", "_get_from_cache", key, 0, got.images, got.hit, cache)
        /\ cache' = got.cache
        /\ UNCHANGED text_cache

TextPut ==
    \E key \in TextKeys, ttl \in Ttls :
        /\ CacheOp("text", "_save_to_cache", key, ttl, "tips", FALSE, text_cache)
        /\ text_cache' = AI_save_to_cache(text_cache, key, "tips", ttl, now)
        /\ UNCHANGED cache

TextGet ==
    \E key \in TextKeys :
        LET got == AI_get_from_cache(text_cache, key, now) IN
        /\ CacheOp("text", "_get_from_cache", key, 0, got.data, got.hit, text_cache)
        /\ text_cache' = got.cache
        /\ UNCHANGED cache

\* Time passes between two calls: up to one second short of a TTL, or up to it.
CacheTickSteps ==
    {ai_cache_ttl - 1, ai_cache_ttl, TipsTtl - 1, TipsTtl, cache_ttl - 1, cache_ttl}

CacheTick ==
    \E d \in CacheTickSteps :
        /\ ticks < MaxTicks
        /\ ticks' = ticks + 1
        /\ now' = now + d
        /\ UNCHANGED <<recommendations_store, db, jobs, response,
                   unsplash_headers, pexels_headers, cache, fetches, phase, kind,
                       count, input, records, tasks, all_images, done_order, saved,
                       text_cache, probe, variant>>

NextCache ==
    \/ ImagePut
    \/ ImageGet
    \/ TextPut
    \/ TextGet
    \/ CacheTick

SpecCache == InitCache /\ [][NextCache]_vars

\* ------------------------------ the ImageService of new_services
\* (src/new_services/image_service.py).  It has no cache and no placeholder:
\* get_images_for_recommendation asks Unsplash, then Pexels, and writes the
\* four image fields of one record when it got a non-empty list.

\* os.getenv of a credential: None, the empty string, or a key.
Credentials == {"unset", "empty", "key"}

\* s.strip() for the space
RECURSIVE LStrip(_)
LStrip(s) == IF s # <<>> /\ Head(s) = " " THEN LStrip(Tail(s)) ELSE s

RECURSIVE RStrip(_)
RStrip(s) ==
    IF s # <<>> /\ s[Len(s)] = " " THEN RStrip(SubSeq(s, 1, Len(s) - 1)) ELSE s

Strip(s) == RStrip(LStrip(s))

\* f"{recommendation.get('name', '')} {recommendation.get('location', '')} travel"
VariantQuery(rec) == Fmt(rec.name) \o <<" ">> \o Fmt(rec.location) \o <<" ">> \o Travel

\* A record that already carries images when it is passed in.
Old(j) == Url("stored", <<>>, j)

Kept == [DestRec(B, <<>>, "city") EXCEPT !.image = Old(1), !.image2 = Old(2),
                                         !.image3 = Old(3), !.image4 = Old(4)]

VariantRecs == {Paris, Bali, Kept}

\* The header dicts are built from the settings whatever these hold.  A GET
\* whose header value is None raises while the request is being built, inside
\* the adapter's try; "Client-ID None", "Client-ID " and "" are strings and
\* go out with the request.
HeaderIsNone(provider, key) == provider = "pexels" /\ key = "unset"

\* A provider answers a request without a valid credential with an error.
ResponsesTo(key) ==
    IF key = "key" THEN Responses ELSE {r \in Responses : ~GoodResponse(r)}

_get_unsplash_images(query, cnt, resp) == Adapter("unsplash", query, cnt, resp)

_get_pexels_images(query, cnt, resp) == Adapter("pexels", query, cnt, resp)

InitVariant ==
    /\ recommendations_store = EmptyStore
    /\ db = <<>>
    /\ jobs = <<>>
    /\ response = NoResponse
    /\ unsplash_headers = FALSE
    /\ pexels_headers = FALSE
    /\ cache = <<>>
    /\ now = 0
    /\ NoCall
    /\ text_cache = <<>>
    /\ probe = NoProbe
    /\ \E uk, pk \in Credentials :
           variant = [pc |-> "idle", UNSPLASH_ACCESS_KEY |-> uk, PEXELS_API_KEY |-> pk,
                      input |-> Paris, rec |-> Paris, cnt |-> 0, query |-> <<>>,
                      requests |-> <<>>, images |-> <<>>]

VariantStep(v) ==
    /\ variant' = v
    /\ UNCHANGED <<recommendations_store, db, jobs, response,
                   unsplash_headers, pexels_headers, cache, now, ticks, fetches, phase,
                   kind, count, input, records, tasks, all_images, done_order, saved,
                   text_cache, probe>>

\* Faulty variant: the four fields are assigned whether or not images came.
DeliverAlways(v, images) ==
    [v EXCEPT !.pc = "returned", !.images = images,
              !.rec = AttachDestination(@, images)]

\* if images: recommendation["image"] = images[0]["url"] ...; return recommendation
Deliver(v, images) ==
    [v EXCEPT !.pc = "returned", !.images = images,
              !.rec = IF images # <<>> THEN AttachDestination(@, images) ELSE @]

\* images = await self._get_pexels_images(search_query, count)
AskPexels(v) ==
    IF HeaderIsNone("pexels", v.PEXELS_API_KEY) THEN Deliver(v, <<>>)
    ELSE [v EXCEPT !.pc = "pexels", !.requests = Append(@, "pexels")]

\* get_images_for_recommendation up to the await of the Unsplash GET.
GetImagesForRecommendation ==
    \E rec \in VariantRecs, k \in AdapterCounts :
        /\ variant.pc = "idle"
        /\ LET q == Strip(VariantQuery(rec))
               v == [variant EXCEPT !.input = rec, !.rec = rec, !.cnt = k, !.query = q]
           IN  VariantStep(IF Strip(q) = <<>> THEN Deliver(v, <<>>)
                           ELSE [v EXCEPT !.pc = "unsplash",
                                          !.requests = Append(@, "unsplash")])

VariantUnsplashResponse ==
    \E resp \in ResponsesTo(variant.UNSPLASH_ACCESS_KEY) :
        /\ variant.pc = "unsplash"
        /\ LET images == _get_unsplash_images(variant.query, variant.cnt, resp).images
           IN  VariantStep(IF images # <<>> THEN Deliver(variant, images)
                           ELSE AskPexels(variant))

VariantPexelsResponse ==
    \E resp \in ResponsesTo(variant.PEXELS_API_KEY) :
        /\ variant.pc = "pexels"
        /\ LET images == _get_pexels_images(variant.query, variant.cnt, resp).images
           IN  VariantStep(Deliver(variant, images))

NextVariant ==
    \/ GetImagesForRecommendation
    \/ VariantUnsplashResponse
    \/ VariantPexelsResponse

SpecVariant == InitVariant /\ [][NextVariant]_vars

\* =================================== control: recommendations_control.py
\* The module that generates recommendations for users, commits them, and
\* serves the store.  Times are in seconds; a user id of 0 stands for None.
expiry_window == 30 * 24 * 3600

MaxJobs == 2   \* generate_and_store jobs added in one behaviour

Users == {1, 2}

\* What the scheduled job has to work on after get_all_user_ids_sync: nothing
\* (an exception, or no user), or the ids of the users.
UserIds == {<<>>, <<1, 2>>}

\* A formatted recommendation as the text generator returns it, with the
\* functions it has been handed to so far.
Payload(rec) == [rec |-> rec, passed |-> <<"get_destination_recommendations">>]

\* Lisbon, Prague and Bangkok, each a city.
_fallback_destination_recommendations ==
    <<Payload(DestRec(<<"L">>, <<"P">>, "city")),
      Payload(DestRec(<<"P">>, <<"C">>, "city")),
      Payload(DestRec(<<"B">>, <<"T">>, "city"))>>

\* What the try block ends in: an exception, or the list built from an answer
\* of the model, of formatted records that passed validation, their image
\* fields None.
GroqOutcomes ==
    {[ok |-> TRUE, recs |-> l] :
        l \in {<<>>, <<Payload(Paris)>>,
               <<Payload(Paris), Payload(DestRec(C, B, "island"))>>}}
    \cup {[ok |-> FALSE, recs |-> <<>>]}

\* Which create of a loop fails with a database error: none, or the n-th.
Failures == {0, 1, 2}

\* for recommendation in recommendations: create_ai_recommendation(...).  Each
\* row is committed on its own; a failure rolls back that row only and raises.
StoreAll(user_id, recs, rows, fail) ==
    LET n == IF fail = 0 \/ fail > Len(recs) THEN Len(recs) ELSE fail - 1 IN
    [raised |-> n < Len(recs),
     db |-> rows \o [i \in 1..n |->
                        [user_id |-> user_id, rec |-> recs[i].rec,
                         passed |-> Append(recs[i].passed, "create_ai_recommendation")]]]

\* The key of the text cache is f"dest_rec_{hash(context)}_{budget_category}_
\* {trip_type}": budget and trip type are the defaults, the context is the
\* user's own trips.
\* generate_and_store from the call of generate_recommendations for ids[k] to
\* the next await of the model's answer, or to its end.  A cached list is
\* returned without a call to the model.
RECURSIVE RunFrom(_, _, _, _, _, _)
RECURSIVE AfterGenerator(_, _, _, _, _, _, _)
RunFrom(job, tc, rows, store, t, fail) ==
    IF job.k > Len(job.ids)
    THEN [job |-> [job EXCEPT !.pc = "done", !.doneAt = t], text_cache |-> tc,
          db |-> rows, store |-> [store EXCEPT !.last_generated = t]]
    ELSE LET got == AI_get_from_cache(tc, <<"dest_rec", job.ids[job.k]>>, t) IN
         IF got.hit /\ got.data # <<>>
         THEN AfterGenerator(job, got.data, got.cache, rows, store, t, fail)
         ELSE [job |-> [job EXCEPT !.pc = "groq"], text_cache |-> got.cache,
               db |-> rows, store |-> store]

\* generate_recommendations from the return of the text generator on.
AfterGenerator(job, recs, tc, rows, store, t, fail) ==
    LET st == StoreAll(job.ids[job.k], recs, rows, fail) IN
    IF st.raised
    THEN [job |-> [job EXCEPT !.pc = "raised", !.made = Append(@, recs)],
          text_cache |-> tc, db |-> st.db, store |-> store]
    ELSE RunFrom([job EXCEPT !.k = @ + 1, !.made = Append(@, recs)],
                 tc, st.db, store, t, 0)

PipelineVars ==
    <<unsplash_headers, pexels_headers, cache, fetches, phase, kind, count, input,
      records, tasks, all_images, done_order, saved, probe, variant>>

InitControl ==
    /\ unsplash_headers = TRUE
    /\ pexels_headers = TRUE
    /\ cache = <<>>
    /\ now = 0
    /\ ticks = 0
    /\ fetches = 0
    /\ phase = "idle"
    /\ kind = "none"
    /\ count = 0
    /\ input = <<>>
    /\ records = <<>>
    /\ tasks = <<>>
    /\ all_images = <<>>
    /\ done_order = <<>>
    /\ saved = {}
    /\ text_cache = <<>>
    /\ probe = NoProbe
    /\ variant = NoVariant
    /\ recommendations_store = EmptyStore
    /\ db = <<>>
    /\ jobs = <<>>
    /\ response = NoResponse

\* background_tasks.add_task(generate_and_store, user.id) / the scheduler's job
AddJob(user_id) ==
    /\ Len(jobs) < MaxJobs
    /\ jobs' = Append(jobs, [user_id |-> user_id, pc |-> "queued", ids |-> <<>>,
                             k |-> 1, made |-> <<>>, addedAt |-> now,
                             doneAt |-> NoTime])

need_refresh(force, store, t) ==
    \/ force
    \/ store.last_generated = NoTime
    \/ t - store.last_generated > expiry_window

\* GET /control/recommendations/{user_id}
GetRecommendations ==
    \E user \in Users, force \in BOOLEAN :
        /\ IF need_refresh(force, recommendations_store, now)
           THEN AddJob(user)
           ELSE UNCHANGED jobs
        /\ response' = [user |-> user,
                        recommendations |-> recommendations_store.data,
                        last_generated |-> recommendations_store.last_generated,
                        force_regeneration |-> force,
                        refreshing |-> need_refresh(force, recommendations_store, now),
                        at |-> now,
                        completed |->
                            {j \in 1..Len(jobs) :
                                /\ jobs[j].pc = "done"
                                /\ \E k \in 1..Len(jobs[j].ids) : jobs[j].ids[k] = user}]
        /\ UNCHANGED <<PipelineVars, now, ticks, text_cache, recommendations_store, db>>

\* GET /control/trigger-recommendations
TriggerRecommendations ==
    \E user \in Users :
        /\ AddJob(user)
        /\ UNCHANGED <<PipelineVars, now, ticks, text_cache, recommendations_store, db,
                       response>>

\* scheduler.add_job(generate_and_store, "interval", hours=24)
ScheduledJob ==
    /\ AddJob(0)
    /\ UNCHANGED <<PipelineVars, now, ticks, text_cache, recommendations_store, db,
                   response>>

JobStep(j, r) ==
    /\ jobs' = [jobs EXCEPT ![j] = r.job]
    /\ text_cache' = r.text_cache
    /\ db' = r.db
    /\ recommendations_store' = r.store
    /\ UNCHANGED <<PipelineVars, now, ticks, response>>

\* generate_and_store from its first line to its first await of the model, or
\* to its return.
JobStart ==
    \E j \in 1..Len(jobs), all \in UserIds, fail \in Failures :
        /\ jobs[j].pc = "queued"
        /\ LET ids == IF jobs[j].user_id # 0 THEN <<jobs[j].user_id>> ELSE all
           IN  IF ids = <<>>
               THEN JobStep(j, [job |-> [jobs[j] EXCEPT !.pc = "returned"],
                                text_cache |-> text_cache, db |-> db,
                                store |-> recommendations_store])
               ELSE JobStep(j, RunFrom([jobs[j] EXCEPT !.ids = ids], text_cache, db,
                                       recommendations_store, now, fail))

\* The model answers (or the call fails and the fallback list is returned);
\* the list is committed and the job goes on.
GroqResponse ==
    \E j \in 1..Len(jobs), out \in GroqOutcomes, fail \in Failures :
        /\ jobs[j].pc = "groq"
        /\ LET uid == jobs[j].ids[jobs[j].k]
               recs == IF out.ok THEN out.recs
                       ELSE _fallback_destination_recommendations
               tc == IF out.ok
                     THEN AI_save_to_cache(text_cache, <<"dest_rec", uid>>, recs, 0, now)
                     ELSE text_cache
           IN  JobStep(j, AfterGenerator(jobs[j], recs, tc, db,
                                         recommendations_store, now, fail))

\* Time passes: an hour (the text cache's TTL), the expiry window, or one
\* second more.
ControlTick ==
    \E d \in {ai_cache_ttl, expiry_window, expiry_window + 1} :
        /\ ticks < MaxTicks
        /\ ticks' = ticks + 1
        /\ now' = now + d
        /\ UNCHANGED <<PipelineVars, text_cache, recommendations_store, db, jobs,
                       response>>

NextControl ==
    \/ GetRecommendations
    \/ TriggerRecommendations
    \/ ScheduledJob
    \/ JobStart
    \/ GroqResponse
    \/ ControlTick

SpecControl == InitControl /\ [][NextControl]_vars

\* ===================================================== properties
DestSlots(rec) == <<rec.image, rec.image2, rec.image3, rec.image4>>

NotNull(u) == u # Null

\* The image URLs a record carries, in order.
Carried(kd, rec) ==
    IF kd = "destinations" THEN SelectSeq(DestSlots(rec), NotNull) ELSE rec.images

Identity(kd, rec) ==
    IF kd = "destinations" THEN <<rec.name, rec.location, rec.settlement_type>>
    ELSE <<rec.title, rec.destination, rec.category>>

\* u is a URL some service produced for this query.
ProducedFor(u, query) ==
    \/ u.src \in {"unsplash", "pexels"} /\ u.q = query
    \/ u.src = "placeholder" /\ u.q = ReplaceSpaces(query)

\* What the fetch of task t delivered: its return value, nothing if it raised.
FetchedBy(t) == IF t.pc = "returned" THEN t.result ELSE <<>>

LastStep(t) == IF t.steps = <<>> THEN "none" ELSE t.steps[Len(t.steps)]

Did(t, step) == \E j \in 1..Len(t.steps) : t.steps[j] = step

\* The entry the task found under its key was present and not expired.
FoundFresh(t) == t.entry.present /\ t.startedAt - t.entry.ts < cache_ttl

\* What the task obtained itself, from what it read and was answered.
Own(t) ==
    IF t.pc # "returned" THEN <<>>
    ELSE IF LastStep(t) = "cache" THEN t.entry.images
    ELSE IF LastStep(t) = "unsplash" THEN t.uRes
    ELSE IF LastStep(t) = "pexels" THEN t.pRes
    ELSE [j \in 1..count |-> Url("placeholder", ReplaceSpaces(t.query), 0)]

\* C1: for a non-empty input list and every completion order of the tasks,
\* the list returned has the length of the input, record i is input record i,
\* and the images it carries are those fetched for query i, each one a URL
\* produced for query i and for no other record's query.
C1_OrderPreserved ==
    (phase = "returned" /\ input # <<>>) =>
        /\ Len(records) = Len(input)
        /\ \A i \in 1..Len(input) :
            /\ Identity(kind, records[i]) = Identity(kind, input[i])
            /\ Carried(kind, records[i]) =
                   (IF kind = "destinations" THEN Take(FetchedBy(tasks[i]), 4)
                    ELSE FetchedBy(tasks[i]))
            /\ \A j \in 1..Len(Carried(kind, records[i])) :
                   ProducedFor(Carried(kind, records[i])[j], BuildQuery(kind, input[i]))

\* Two different queries, the second task settled first, both records filled.
C1_Witness ==
    /\ phase = "returned"
    /\ Len(input) = 2
    /\ tasks[1].query # tasks[2].query
    /\ done_order = <<2, 1>>
    /\ Carried(kind, records[1]) # <<>>
    /\ Carried(kind, records[2]) # <<>>
    /\ Carried(kind, records[1])[1].src = "unsplash"

\* C2: when the fetch of one query raises, the batch still returns normally,
\* that query's slot is the empty list, the raising fetch has written nothing
\* to the cache, and every other slot is what its own fetch obtained from the
\* cache entry it read and the responses it was given.
C2_BatchIsolation ==
    /\ phase # "raised"
    /\ \A i \in 1..Len(tasks) : tasks[i].pc = "raised" => ~tasks[i].wrote
    /\ (phase = "returned" /\ input # <<>>) =>
        /\ Len(all_images) = Len(tasks)
        /\ \A i \in 1..Len(tasks) :
            /\ tasks[i].pc = "raised" =>
                   all_images[i] = <<>> /\ Carried(kind, records[i]) = <<>>
            /\ tasks[i].pc = "returned" => all_images[i] = Own(tasks[i])

\* One fetch of a batch of two raised, the other returned real images.
C2_Witness ==
    /\ phase = "returned"
    /\ Len(tasks) = 2
    /\ tasks[1].pc = "raised"
    /\ tasks[2].pc = "returned"
    /\ Len(all_images[2]) > 0
    /\ all_images[2][1].src = "pexels"

StageNo(step) ==
    IF step = "cache" THEN 1 ELSE IF step = "unsplash" THEN 2
    ELSE IF step = "pexels" THEN 3 ELSE 4

UnsplashGaveNothing(t) == ~unsplash_headers \/ (Did(t, "unsplash") /\ t.uRes = <<>>)

PexelsGaveNothing(t) == ~pexels_headers \/ (Did(t, "pexels") /\ t.pRes = <<>>)

\* C3: in every fetch the cache is consulted first; Unsplash is called only
\* after a cache miss; Pexels only after Unsplash was disabled or returned
\* nothing in this fetch; placeholders only after both were disabled or
\* returned nothing; the value returned is the first non-empty one in that order.
C3_FallbackOrder ==
    \A i \in 1..Len(tasks) :
        LET t == tasks[i] IN
        /\ t.pc # "created" => t.steps # <<>> /\ t.steps[1] = "cache"
        /\ \A a, b \in 1..Len(t.steps) : a < b => StageNo(t.steps[a]) < StageNo(t.steps[b])
        /\ Did(t, "unsplash") => unsplash_headers /\ ~FoundFresh(t)
        /\ Did(t, "pexels") => pexels_headers /\ ~FoundFresh(t) /\ UnsplashGaveNothing(t)
        /\ Did(t, "placeholder") =>
               ~FoundFresh(t) /\ UnsplashGaveNothing(t) /\ PexelsGaveNothing(t)
        /\ t.pc = "returned" =>
               t.result =
                   (IF FoundFresh(t) THEN t.entry.images
                    ELSE IF t.uRes # <<>> THEN t.uRes
                    ELSE IF t.pRes # <<>> THEN t.pRes
                    ELSE Own(t))

\* A fetch that found an expired entry and went through all four steps.
C3_Witness ==
    /\ Len(tasks) = 1
    /\ tasks[1].pc = "returned"
    /\ tasks[1].steps = <<"cache", "unsplash", "pexels", "placeholder">>
    /\ tasks[1].entry.present

\* C4: the batch does not return, and no image field is written, before every
\* fetch task of the batch has settled.
C4_Barrier ==
    /\ phase \in {"returned", "raised"} => GatherDone(tasks)
    /\ phase = "gathering" => records = input /\ all_images = <<>>

\* A task raised while its sibling was still awaiting a provider, and the
\* batch returned only after the sibling had settled too.
C4_Witness ==
    /\ phase = "returned"
    /\ Len(tasks) = 2
    /\ done_order = <<1, 2>>
    /\ tasks[1].pc = "raised"
    /\ Did(tasks[2], "pexels")
    /\ Carried(kind, records[2]) # <<>>

\* A fetch of the call in progress that has at least looked at the cache.
Started(t) == t.steps # <<>>

\* C5 as stated: once a fetch has obtained a non-empty list from a provider,
\* every fetch of a later call for the same key that starts less than the TTL
\* after that save returns that list and calls no provider.
C5_AsStated ==
    \A e \in saved : \A i \in 1..Len(tasks) :
        (/\ e.call < fetches
         /\ Started(tasks[i])
         /\ Settled(tasks[i])
         /\ KeyOf(tasks[i]) = e.key
         /\ tasks[i].startedAt - e.ts < cache_ttl)
        => tasks[i].steps = <<"cache">> /\ tasks[i].result = e.images

\* C5, amended: a fetch that starts while the cache holds an entry for its
\* key whose age is below the TTL returns the list stored in that entry, which
\* a provider fetch of that key saved, and calls no provider.
C5_CacheHit ==
    \A i \in 1..Len(tasks) :
        LET t == tasks[i] IN
        (Started(t) /\ FoundFresh(t)) =>
            /\ t.pc = "returned"
            /\ t.steps = <<"cache">>
            /\ t.result = t.entry.images
            /\ \E e \in saved :
                   e.key = KeyOf(t) /\ e.images = t.result /\ e.ts = t.entry.ts

\* A fetch answered from an entry one second short of the TTL.
C5_Witness ==
    /\ Len(tasks) = 1
    /\ tasks[1].pc = "returned"
    /\ tasks[1].steps = <<"cache">>
    /\ tasks[1].startedAt - tasks[1].entry.ts = cache_ttl - 1
    /\ Len(tasks[1].result) = 3

SameKeySaved(i) ==
    \E j \in 1..Len(tasks) :
        j # i /\ KeyOf(tasks[j]) = KeyOf(tasks[i]) /\ tasks[j].wrote

EndedWithPlaceholders(t) == t.pc = "returned" /\ LastStep(t) = "placeholder"

Found(t) ==
    IF t.pc # "returned" THEN 0
    ELSE IF LastStep(t) = "unsplash" THEN t.uFound
    ELSE IF LastStep(t) = "pexels" THEN t.pFound
    ELSE Len(t.result)

Filled(rec) == Len(SelectSeq(DestSlots(rec), NotNull))

DestinationsReturned == phase = "returned" /\ kind = "destinations" /\ input # <<>>

C8_PositionalSlots ==
    DestinationsReturned =>
        \A i \in 1..Len(records) :
            LET r == all_images[i]
                t == tasks[i]
            IN  /\ \A j \in 1..4 :
                       DestSlots(records[i])[j] = (IF j <= Len(r) THEN r[j] ELSE Null)
                /\ (t.pc = "returned" /\ LastStep(t) \in {"unsplash", "pexels"}) =>
                       /\ Len(r) = Min(count, Found(t))
                       /\ \A j \in 1..Len(r) : r[j] = Url(LastStep(t), t.query, j)

\* Unsplash found five photos for k = 4: u1..u4 in the slots, u5 dropped.
C8_Witness ==
    /\ DestinationsReturned
    /\ count = 4
    /\ tasks[1].uFound = 5
    /\ DestSlots(records[1]) = [j \in 1..4 |-> Url("unsplash", tasks[1].query, j)]

\* C9: a provider's non-empty result shorter than requested is returned as it
\* is: no later provider is called, no placeholder is mixed in, and the slots
\* beyond its length stay null.
C9_NoTopUp ==
    /\ \A i \in 1..Len(tasks) :
        LET t == tasks[i] IN
        /\ t.uRes # <<>> =>
               /\ ~Did(t, "pexels") /\ ~Did(t, "placeholder")
               /\ t.pc = "returned" /\ t.result = t.uRes
               /\ \A j \in 1..Len(t.result) : t.result[j].src = "unsplash"
        /\ t.pRes # <<>> =>
               /\ ~Did(t, "placeholder")
               /\ t.pc = "returned" /\ t.result = t.pRes
               /\ \A j \in 1..Len(t.result) : t.result[j].src = "pexels"
    /\ DestinationsReturned =>
        \A i \in 1..Len(records) :
            (tasks[i].uRes # <<>> \/ tasks[i].pRes # <<>>) =>
                Filled(records[i]) = Min(4, Len(tasks[i].uRes) + Len(tasks[i].pRes))

\* Unsplash disabled, Pexels returned 3 for k = 4: three slots and one null.
C9_Witness ==
    /\ DestinationsReturned
    /\ ~unsplash_headers
    /\ count = 4
    /\ Len(tasks[1].pRes) = 3
    /\ Filled(records[1]) = 3
    /\ records[1].image4 = Null

\* urllib.parse.quote_plus on the characters of the model's strings.
RECURSIVE UrlEscape(_)
UrlEscape(s) ==
    IF s = <<>> THEN <<>>
    ELSE (IF Head(s) = " " THEN <<"+">>
          ELSE IF Head(s) = "&" THEN <<"%", "2", "6">>
          ELSE IF Head(s) = "+" THEN <<"%", "2", "B">>
          ELSE <<Head(s)>>) \o UrlEscape(Tail(s))

Contains(s, sub) ==
    \E a \in 0..(Len(s) - Len(sub)) : SubSeq(s, a + 1, a + Len(sub)) = sub

\* C10: a fetch whose providers were both disabled or returned nothing
\* returns exactly `count` placeholder URLs, each containing the URL-escaped
\* text of the query.
C10_PlaceholdersEscaped ==
    \A i \in 1..Len(tasks) :
        EndedWithPlaceholders(tasks[i]) =>
            /\ Len(tasks[i].result) = count
            /\ \A j \in 1..count :
                   Contains(tasks[i].result[j].q, UrlEscape(tasks[i].query))

\* The service an adapter's URLs come from.
ProviderOf(op) == IF op = "_fetch_from_unsplash" THEN "unsplash" ELSE "pexels"

\* C11: an adapter never raises to its caller; for a non-200, rate-limit or
\* invalid-credential status, a timeout, a transport error or a malformed
\* 200 body it returns the empty list; what it returns is the first
\* min(count, n) URLs of a well-formed 200 response of n photos, in the
\* provider's order, and so never more than `count`.
C11_AdaptersNeverRaise ==
    (probe.op \in {"_fetch_from_unsplash", "_fetch_from_pexels"} /\ probe.done) =>
        /\ ~probe.raised
        /\ ~GoodResponse(probe.resp) => probe.images = <<>>
        /\ Len(probe.images) <= probe.cnt
        /\ GoodResponse(probe.resp) =>
               /\ Len(probe.images) = Min(probe.cnt, probe.resp.n)
               /\ \A j \in 1..Len(probe.images) :
                      probe.images[j] = Url(ProviderOf(probe.op), probe.query, j)

\* Pexels answered 200 with a body that cannot be read: the empty list.
C11_Witness ==
    /\ probe.op = "_fetch_from_pexels"
    /\ probe.done
    /\ probe.resp.status = 200
    /\ probe.resp.body = "malformed"
    /\ probe.resp.n = 3
    /\ ~probe.raised
    /\ probe.images = <<>>

Requested(v, provider) == \E j \in 1..Len(v.requests) : v.requests[j] = provider

\* C12: a provider whose credential is absent (unset or empty) is never sent
\* an HTTP request, and a fetch that skips it moves on down the chain.
C12_AbsentCredentialDisables ==
    /\ variant.UNSPLASH_ACCESS_KEY # "key" => ~Requested(variant, "unsplash")
    /\ variant.PEXELS_API_KEY # "key" => ~Requested(variant, "pexels")

\* The call just made on a dict, and the call made before it.
Made(obj, op) == probe.obj = obj /\ probe.op = op

MadeBefore(obj, op) == probe.prev.obj = obj /\ probe.prev.op = op

\* C13: in the image cache a get of a key made right after a put of that key,
\* less than the TTL later, returns the value put, whatever the dict held
\* before, a dict at its ceiling included: when the put returns, the dict
\* holds the entry (value, time of the put) under the key.
C13_GetAfterPut ==
    /\ Made("image", "_save_to_cache") =>
           LET i == CacheIndex(cache, probe.key) IN
           /\ i # 0
           /\ cache[i].images = probe.value
           /\ cache[i].ts = probe.at
    /\ (/\ Made("image", "_get_from_cache")
        /\ MadeBefore("image", "_save_to_cache")
        /\ probe.prev.key = probe.key
        /\ probe.at - probe.prev.at < cache_ttl)
       => probe.hit /\ probe.value = probe.prev.value

\* A put into a dict of 500 entries triggered the sweep, and the get made one
\* second short of the TTL later returned the value put.
C13_Witness ==
    /\ Made("image", "_get_from_cache")
    /\ MadeBefore("image", "_save_to_cache")
    /\ probe.prev.key = probe.key
    /\ probe.at - probe.prev.at = cache_ttl - 1
    /\ Len(cache) = CacheCeiling + 1 - SweepSize
    /\ probe.hit
    /\ probe.value = ProbeImages

\* The dict of the object the calls are made on, its TTL, and the value an
\* entry holds.
Dict(obj) == IF obj = "image" THEN cache ELSE text_cache

TtlOf(obj) == IF obj = "image" THEN cache_ttl ELSE ai_cache_ttl

Stored(obj, e) == IF obj = "image" THEN e.images ELSE e.data

\* The entries of a dict under keys other than key, in order.
Others(c, key) == LET Other(e) == e.key # key IN SelectSeq(c, Other)

\* C14: in both caches (TTL 86400 s for images, 3600 s for text) a get of a
\* key whose entry has age >= TTL returns absent and deletes that entry, the
\* entry count dropping by one; at age < TTL it returns the stored value and
\* keeps the entry; a get of a missing key changes nothing; the entries under
\* every other key stay as they were.
C14_Expiry ==
    probe.op = "_get_from_cache" =>
        LET b == probe.before
            d == Dict(probe.obj)
            i == CacheIndex(b, probe.key)
        IN  /\ Others(d, probe.key) = Others(b, probe.key)
            /\ i = 0 => ~probe.hit /\ d = b
            /\ (i # 0 /\ probe.at - b[i].ts >= TtlOf(probe.obj)) =>
                   /\ ~probe.hit
                   /\ CacheIndex(d, probe.key) = 0
                   /\ Len(d) = Len(b) - 1
            /\ (i # 0 /\ probe.at - b[i].ts < TtlOf(probe.obj)) =>
                   /\ probe.hit
                   /\ probe.value = Stored(probe.obj, b[i])
                   /\ d = b

\* An image entry read at the very second its age reached the TTL: absent,
\* and the dict of 500 entries is left with 499.
C14_Witness ==
    /\ Made("image", "_get_from_cache")
    /\ MadeBefore("image", "_save_to_cache")
    /\ probe.prev.key = probe.key
    /\ probe.at - probe.prev.at = cache_ttl
    /\ ~probe.hit
    /\ Len(probe.before) = CacheCeiling
    /\ Len(cache) = CacheCeiling - 1

\* The entries a call removed from the dict.
Removed(b, d) == {b[i] : i \in {j \in 1..Len(b) : CacheIndex(d, b[j].key) = 0}}

\* C15: the image cache never holds more than 500 entries once a put has
\* returned; a put that brings the count above 500 removes exactly 100
\* entries, each with a timestamp less than or equal to that of every entry
\* kept.
C15_SizeBound ==
    /\ Len(cache) <= CacheCeiling
    /\ Made("image", "_save_to_cache") =>
           LET b == probe.before
               grown == IF CacheIndex(b, probe.key) = 0 THEN Len(b) + 1 ELSE Len(b)
           IN  IF grown > CacheCeiling
               THEN /\ Len(cache) = grown - SweepSize
                    /\ Cardinality(Removed(b, cache)) = SweepSize
                    /\ \A r \in Removed(b, cache) :
                           \A k \in 1..Len(cache) : r.ts <= cache[k].ts
               ELSE Len(cache) = grown

\* A put of a new key into a dict of 500 entries: 401 are left, and the first
\* position, which holds the newest of the old timestamps, is among them.
C15_Witness ==
    /\ Made("image", "_save_to_cache")
    /\ Len(probe.before) = CacheCeiling
    /\ Len(cache) = CacheCeiling + 1 - SweepSize
    /\ cache[1] = probe.before[1]
    /\ cache[1].ts = StartTime

\* C16: after a put the text cache does not hold more than 100 entries.
C16_TextCacheBounded ==
    Made("text", "_save_to_cache") => Len(text_cache) <= AICacheCeiling

\* C17: a get of a key right after a put of that key returns the value iff
\* the age of the entry is below the TTL given to the put: for ttl = 7200
\* returned at every age below 7200 s, absent from 7200 s on.
C17_PerEntryTtl ==
    (/\ Made("text", "_get_from_cache")
     /\ MadeBefore("text", "_save_to_cache")
     /\ probe.prev.key = probe.key)
    => (probe.hit <=> probe.at - probe.prev.at < TtlUsed(probe.prev.ttl))

\* C18: in every reachable state, whatever the interleaving of the fetches,
\* each entry of the image cache is one that a single save wrote whole
\* (value and timestamp), under a key no other entry has; its value is a
\* non-empty list of at most `count` URLs, the first ones a single provider
\* returned, in order, for the query and the count of its key: never an
\* empty list, a placeholder, or a URL of another query.
C18_CacheIntegrity ==
    \A i \in 1..Len(cache) :
        LET e == cache[i] IN
        /\ \A j \in 1..Len(cache) : cache[j].key = e.key => j = i
        /\ \E w \in saved : w.key = e.key /\ w.images = e.images /\ w.ts = e.ts
        /\ e.images # <<>>
        /\ Len(e.images) <= e.key[2]
        /\ e.images[1].src \in {"unsplash", "pexels"}
        /\ \A j \in 1..Len(e.images) :
               /\ e.images[j].src = e.images[1].src
               /\ Fmt(e.images[j].q) = e.key[1]
               /\ e.images[j].n = j

\* Two fetches of one batch, answered in the reverse of their order by
\* different providers, each left its own entry.
C18_Witness ==
    /\ phase = "gathering"
    /\ Len(cache) = 2
    /\ done_order = <<2, 1>>
    /\ tasks[1].wrote
    /\ tasks[2].wrote
    /\ cache[1].key = KeyOf(tasks[2])
    /\ cache[2].key = KeyOf(tasks[1])
    /\ cache[1].images[1].src = "pexels"
    /\ cache[2].images[1].src = "unsplash"

ActivitiesReturned == phase = "returned" /\ kind = "activities" /\ input # <<>>

\* C19: after enhance_trip_activities_with_images every record's images is
\* the whole list fetched for its query, in order, and its coverImage is the
\* first element of that list, null exactly when the list is empty.
C19_ActivityFields ==
    ActivitiesReturned =>
        \A i \in 1..Len(records) :
            /\ records[i].images = all_images[i]
            /\ records[i].images = FetchedBy(tasks[i])
            /\ records[i].images # <<>> => records[i].coverImage = records[i].images[1]
            /\ records[i].coverImage = Null <=> records[i].images = <<>>

\* One activity whose fetch raised (no image, null cover) and one with two
\* images, the first of them its cover.
C19_Witness ==
    /\ ActivitiesReturned
    /\ Len(records) = 2
    /\ records[1].images = <<>>
    /\ records[1].coverImage = Null
    /\ Len(records[2].images) = 2
    /\ records[2].coverImage = Url("unsplash", tasks[2].query, 1)

\* C20: a call with an empty list returns at once with the empty list: no
\* fetch task is created, no fetch is counted, no provider is called, and the
\* cache and the log of saves are as before the call.
C20_EmptyNoOp ==
    [][(input' = <<>> /\ phase' = "returned") =>
           /\ phase = "idle"
           /\ records' = <<>>
           /\ tasks' = <<>>
           /\ all_images' = <<>>
           /\ fetches' = fetches
           /\ cache' = cache
           /\ saved' = saved]_vars

\* An empty activity list returned while the cache holds an entry.
C20_Witness ==
    /\ phase = "returned"
    /\ input = <<>>
    /\ kind = "activities"
    /\ tasks = <<>>
    /\ cache # <<>>

\* The batch has returned one result per query and the call has returned.
BatchReturned ==
    /\ phase = "returned"
    /\ GatherDone(tasks)
    /\ Len(all_images) = Len(tasks)
    /\ Len(records) = Len(input)

\* C21: with every GET ending, a batch that was issued leads to the return of
\* one result per query and of the enrichment call, and the call never
\* raises, whatever the tasks end in.
C21_BatchTerminates ==
    /\ (phase = "gathering") ~> BatchReturned
    /\ [](phase # "raised")

\* A batch that returned after one fetch raised and the other went through
\* both providers and ended with placeholders.
C21_Witness ==
    /\ BatchReturned
    /\ Len(tasks) = 2
    /\ tasks[1].pc = "raised"
    /\ tasks[2].pc = "returned"
    /\ tasks[2].steps = <<"cache", "unsplash", "pexels", "placeholder">>

\* The task is suspended in a provider call.
InFlight(t) == t.pc \in {"unsplash", "pexels"}

\* The task has been resumed with the answer of a provider call.
HandledResponse(t) ==
    \/ Did(t, "unsplash") /\ t.pc # "unsplash"
    \/ Did(t, "pexels") /\ t.pc # "pexels"

\* C22: in a batch no answer of a provider is handled before every task of
\* the batch has taken its first step, and with a provider enabled a task that
\* missed the cache is in a provider call from its first step on, whatever the
\* other tasks have done: the calls of a cold batch are all in flight
\* together.
C22_Concurrent ==
    /\ \A i \in 1..Len(tasks) : HandledResponse(tasks[i]) => AllStarted
    /\ (unsplash_headers \/ pexels_headers) =>
          \A i \in 1..Len(tasks) :
              (Started(tasks[i]) /\ ~FoundFresh(tasks[i])
                 /\ ~HandledResponse(tasks[i])) => InFlight(tasks[i])
    /\ (AllStarted /\ (unsplash_headers \/ pexels_headers)
          /\ \A i \in 1..Len(tasks) :
                ~FoundFresh(tasks[i]) /\ ~HandledResponse(tasks[i])) =>
          \A i \in 1..Len(tasks) : InFlight(tasks[i])

\* Provider calls of two different queries of one batch are in flight at once,
\* on a cache that holds nothing.
C22_Witness ==
    /\ Len(tasks) >= 2
    /\ cache = <<>>
    /\ \E i, j \in 1..Len(tasks) :
          /\ tasks[i].query # tasks[j].query
          /\ InFlight(tasks[i])
          /\ InFlight(tasks[j])
          /\ ~HandledResponse(tasks[i])
          /\ ~HandledResponse(tasks[j])

\* C23: every per-query result has at most as many URLs as the batch asked
\* for, whichever path produced it: what a settled fetch delivered, what each
\* adapter returned to it, the entry it read from the cache, the list the
\* batch returns for it, and every list the cache holds under a key of that
\* count.
C23_LengthBound ==
    /\ \A i \in 1..Len(tasks) :
          /\ Len(FetchedBy(tasks[i])) <= count
          /\ Len(tasks[i].uRes) <= count
          /\ Len(tasks[i].pRes) <= count
          /\ Len(tasks[i].entry.images) <= count
    /\ \A i \in 1..Len(all_images) : Len(all_images[i]) <= count
    /\ \A j \in 1..Len(cache) : Len(cache[j].images) <= cache[j].key[2]

\* A batch returned with a result cut from a longer page of a provider next
\* to one that is empty because its fetch raised.
C23_Witness ==
    /\ phase = "returned"
    /\ \E i, j \in 1..Len(tasks) :
          /\ tasks[i].pc = "returned"
          /\ LastStep(tasks[i]) \in {"unsplash", "pexels"}
          /\ tasks[i].uFound + tasks[i].pFound > count
          /\ Len(all_images[i]) = count
          /\ tasks[j].pc = "raised"
          /\ all_images[j] = <<>>

\* The fields the enrichment of a list of this kind assigns.
ImageFields(kd) ==
    IF kd = "destinations" THEN {"image", "image2", "image3", "image4"}
    ELSE {"images", "coverImage"}

\* C24: throughout an enrichment call the list has as many records as the
\* input, record i has the fields of input record i, and every field other
\* than image, image2, image3, image4 (destinations) or images, coverImage
\* (activities) has the value it had on entry.
C24_Frame ==
    /\ Len(records) = Len(input)
    /\ \A i \in 1..Len(records) :
          /\ DOMAIN records[i] = DOMAIN input[i]
          /\ \A f \in (DOMAIN input[i]) \ ImageFields(kind) :
                records[i][f] = input[i][f]

\* A call returned two records, one with image fields assigned from a
\* provider's list, the other left without images.
C24_Witness ==
    /\ phase = "returned"
    /\ Len(records) = 2
    /\ \E i, j \in 1..2 :
          /\ records[i] # input[i]
          /\ LastStep(tasks[i]) \in {"unsplash", "pexels"}
          /\ records[j] = input[j]
          /\ all_images[j] = <<>>

\* The functions a committed row was handed to before it was committed.
BeforeCommit(row) == SubSeq(row.passed, 1, Len(row.passed) - 1)

EnhancedFirst(row) ==
    \E j \in 1..Len(BeforeCommit(row)) :
        BeforeCommit(row)[j] = "enhance_destinations_with_images"

\* C25: every row committed by generate_recommendations was handed to
\* enhance_destinations_with_images before create_ai_recommendation.
C25_EnrichmentPrecedesPersistence ==
    \A i \in 1..Len(db) : EnhancedFirst(db[i])

\* The list generate_recommendations returned for the user in this job.
MadeFor(job, user) ==
    job.made[CHOOSE k \in 1..Len(job.ids) : job.ids[k] = user]

\* C28: a get_recommendations call made without force and inside the expiry
\* window, after generate_and_store has run to its end for the user, returns
\* the recommendations generated for the user (not None) and the time of that
\* generation.
C28_StoreServes ==
    (/\ response.user # 0
     /\ ~response.force_regeneration
     /\ ~response.refreshing
     /\ response.completed # {}) =>
        /\ response.recommendations # NoData
        /\ \E j \in response.completed :
              /\ response.last_generated = jobs[j].doneAt
              /\ response.recommendations = MadeFor(jobs[j], response.user)

\* The dict has the key with a value that is neither None nor empty.
Present(rec, key) == key \in DOMAIN rec /\ rec[key] # <<>> /\ rec[key] # NoneStr

Returned(op) == probe.op = op /\ probe.done

\* The hint for the settlement type of the dict, "travel" when it has none.
HintOf(rec) ==
    IF "settlement_type" \in DOMAIN rec /\ rec.settlement_type \in {"beach", "island"}
    THEN Beach
    ELSE IF "settlement_type" \in DOMAIN rec /\ rec.settlement_type = "resort"
    THEN Resort
    ELSE Travel

TextOf(rec, key) ==
    IF key \notin DOMAIN rec THEN <<>>
    ELSE IF rec[key] = NoneStr THEN <<"N", "o", "n", "e">>
    ELSE rec[key]

\* C27: for every activity dict the query is the title, a space and the
\* destination when the category is Sightseeing, Culture or Nature, and the
\* title as it is for any other category and for none; a missing or empty
\* title or destination contributes the empty string.
C27_ActivityQuery ==
    Returned("_build_activity_search_query") =>
        IF "category" \in DOMAIN probe.rec
           /\ probe.rec.category \in {"Sightseeing", "Culture", "Nature"}
        THEN probe.query = TextOf(probe.rec, "title") \o <<" ">>
                           \o TextOf(probe.rec, "destination")
        ELSE probe.query = (IF "title" \in DOMAIN probe.rec THEN probe.rec.title
                            ELSE <<>>)

\* The builder returned for a cultural activity without a destination, and
\* the query is the title and a space.
C27_Witness ==
    /\ Returned("_build_activity_search_query")
    /\ DOMAIN probe.rec = {"title", "category"}
    /\ probe.rec.category = "Culture"
    /\ probe.query = C \o <<" ">>

\* Tasks i and j of the batch fetch the same query, and the first of them
\* found no fresh entry under their key.
ColdDuplicates(i, j) ==
    /\ i < j
    /\ tasks[i].query = tasks[j].query
    /\ ~FoundFresh(tasks[i])

\* The entries the dict holds under the key.
EntriesFor(c, key) == {k \in 1..Len(c) : c[k].key = key}

\* When task i settled, as a position in the order of settling.
SettledAt(i) == CHOOSE k \in 1..Len(done_order) : done_order[k] = i

CalledProvider(t) == Did(t, "unsplash") \/ Did(t, "pexels")

\* Of two tasks of which one at least saved, the one that saved last.
LastSaver(i, j) ==
    IF ~tasks[j].wrote THEN i
    ELSE IF ~tasks[i].wrote THEN j
    ELSE IF SettledAt(i) > SettledAt(j) THEN i ELSE j

C30_VariantFrame ==
    variant.pc = "returned" =>
        IF variant.images = <<>>
        THEN /\ variant.rec = variant.input
             /\ \A j \in 1..4 : DestSlots(variant.rec)[j].src # "placeholder"
        ELSE /\ \A j \in 1..4 :
                  DestSlots(variant.rec)[j] =
                      IF j <= Len(variant.images) THEN variant.images[j] ELSE Null
             /\ Identity("destinations", variant.rec)
                   = Identity("destinations", variant.input)

\* The call returned for a record that came with four image URLs, after
\* both providers were asked and gave nothing: the four URLs are still there.
C30_Witness ==
    /\ variant.pc = "returned"
    /\ variant.input = Kept
    /\ variant.requests = <<"unsplash", "pexels">>
    /\ variant.images = <<>>
    /\ DestSlots(variant.rec) = <<Old(1), Old(2), Old(3), Old(4)>>

====
